---- MODULE Spec2Model ----
(***************************************************************************)
(* Model of mango_conv.py (parse_call_html, _duration_to_seconds, _clean,  *)
(* convert_directory) and of the /upload handler of mango_service.py.      *)
(*                                                                         *)
(* A text (a Python str) is a sequence of tokens.  A token is one          *)
(* character (" ", "\n", ":", ".", a digit, a letter) or one of the fixed  *)
(* words of the source written as a single token: the banner marker        *)
(* "Zapis razgovorov", the role markers "Sotrudnik" and "Klient", the      *)
(* labels of LABEL_XLAT (transliterated: the module is ASCII) and the      *)
(* separator "##".  A table cell (a td) is the sequence of its text nodes, *)
(* a row (a tr) the sequence of its cells, a table the sequence of its     *)
(* rows and a document the sequence of its tables.                         *)
(***************************************************************************)
EXTENDS Integers, Sequences, FiniteSets, TLC

VARIABLES
    pc,                  \* parse_call_html: "loop", "returned" or "raised"
    trs,                 \* the rows of the table iterated so far
    header,              \* dict header
    dialogue,            \* list dialogue
    conversation_lines,  \* list conversation_lines
    result,              \* what parse_call_html returned or raised
    html,                \* SpecDoc: the document given to parse_call_html
    parsed,              \* SpecDoc: the outcome of parse_call_html(html)
    raw,                 \* SpecDur: the argument of _duration_to_seconds
    seconds,             \* SpecDur: its outcome
    driver,              \* SpecBatch: "upload" or "convert_directory"
    files,               \* SpecBatch: the batch, in iteration order
    idx,                 \* SpecBatch: number of files the loop has taken
    final_rows,          \* SpecBatch: list final_rows
    errors,              \* SpecBatch: list errors (upload)
    processed_count,     \* SpecBatch: processed_count (upload)
    error_count,         \* SpecBatch: error_count (upload)
    outcome              \* SpecBatch: how the driver ended

parseVars == <<pc, trs, header, dialogue, conversation_lines, result>>
docVars == <<html, parsed>>
durVars == <<raw, seconds>>
batchVars == <<driver, files, idx, final_rows, errors, processed_count,
               error_count, outcome>>
vars == <<parseVars, docVars, durVars, batchVars>>

----------------------------------------------------------------------------
(* Bounds of the model *)

MaxRows == 3

MaxTables == 3

MaxDurationLen == 7

MaxFiles == 3

----------------------------------------------------------------------------
(* Tokens and Python values *)

NL == "\n"
SP == " "
COLON == ":"
DOT == "."
SEPARATOR == "##"
BannerMarker == <<"Zapis razgovorov">>
Sotrudnik == <<"Sotrudnik">>
Klient == <<"Klient">>

PyStr(t) == [str |-> t]
PyInt(n) == [int |-> n]
Datetime(t) == [datetime |-> t]
NoneValue == [none |-> TRUE]

LABEL_XLAT ==
    (<<"Nomer linii ATS">> :> <<"line_number">>)
    @@ (<<"Kto zvonil">> :> <<"caller">>)
    @@ (<<"S kem govoril">> :> <<"callee">>)
    @@ (<<"Dlitelnost">> :> <<"duration_raw">>)

Digits == <<"0", "1", "2", "3", "4", "5", "6", "7", "8", "9">>

----------------------------------------------------------------------------
(* str methods *)

IsSpace(c) == c \in {SP, NL}

RECURSIVE LStrip(_)
LStrip(s) == IF s # <<>> /\ IsSpace(Head(s)) THEN LStrip(Tail(s)) ELSE s

RECURSIVE RStrip(_)
RStrip(s) ==
    IF s # <<>> /\ IsSpace(s[Len(s)]) THEN RStrip(SubSeq(s, 1, Len(s) - 1)) ELSE s

Strip(s) == RStrip(LStrip(s))

RECURSIVE RStripColon(_)
RStripColon(s) ==
    IF s # <<>> /\ s[Len(s)] = COLON
    THEN RStripColon(SubSeq(s, 1, Len(s) - 1))
    ELSE s

StartsWith(s, p) == Len(s) >= Len(p) /\ SubSeq(s, 1, Len(p)) = p

EndsWith(s, c) == s # <<>> /\ s[Len(s)] = c

RECURSIVE Split(_, _)
Split(s, sep) ==
    IF \E i \in 1..Len(s) : s[i] = sep
    THEN LET i == CHOOSE k \in 1..Len(s) :
                      s[k] = sep /\ \A j \in 1..(k - 1) : s[j] # sep
         IN  <<SubSeq(s, 1, i - 1)>> \o Split(SubSeq(s, i + 1, Len(s)), sep)
    ELSE <<s>>

SplitLines(s) ==
    LET p == Split(s, NL)
    IN  IF p[Len(p)] = <<>> THEN SubSeq(p, 1, Len(p) - 1) ELSE p

RECURSIVE Join(_, _)
Join(parts, sep) ==
    IF parts = <<>> THEN <<>>
    ELSE IF Len(parts) = 1 THEN parts[1]
    ELSE parts[1] \o sep \o Join(Tail(parts), sep)

NonEmpty(s) == s # <<>>

StripAll(parts) == [i \in 1..Len(parts) |-> Strip(parts[i])]

RECURSIVE DecStr(_)
DecStr(n) ==
    IF n < 10 THEN <<Digits[n + 1]>>
    ELSE DecStr(n \div 10) \o <<Digits[(n % 10) + 1]>>

----------------------------------------------------------------------------
(* BeautifulSoup: the text of a cell *)

GetText(td, sep) == Join(td, sep)

GetTextStripped(td, sep) == Join(SelectSeq(StripAll(td), NonEmpty), sep)

Text(td) == GetText(td, <<>>)

Clean(td) ==
    Join(SelectSeq(StripAll(SplitLines(GetTextStripped(td, <<NL>>))), NonEmpty),
         <<SP>>)

----------------------------------------------------------------------------
(* _duration_to_seconds *)

LongDigitRun == "9...9 (4301 digits)"

IsDigitOrColon(c) ==
    c = COLON \/ c = LongDigitRun \/ \E d \in 1..10 : Digits[d] = c

DigitValue(c) == (CHOOSE d \in 1..10 : Digits[d] = c) - 1

RECURSIVE DigitCount(_)
DigitCount(p) ==
    IF p = <<>> THEN 0
    ELSE (IF Head(p) = LongDigitRun THEN 4301 ELSE 1) + DigitCount(Tail(p))

RECURSIVE ParseInt(_)
ParseInt(p) ==
    IF p = <<>> THEN 0
    ELSE ParseInt(SubSeq(p, 1, Len(p) - 1)) * 10 + DigitValue(p[Len(p)])

IntValueError ==
    [raised |-> "ValueError",
     message |-> "Exceeds the limit (4300 digits) for integer string conversion"]

DurationSegments(r) ==
    SelectSeq(Split(SelectSeq(r, IsDigitOrColon), COLON), NonEmpty)

DurationParts(r) ==
    [i \in 1..Len(DurationSegments(r)) |-> ParseInt(DurationSegments(r)[i])]

DurationToSecondsFirstPart(r) ==
    IF r = NoneValue \/ r = PyStr(<<>>) THEN NoneValue
    ELSE IF \E i \in 1..Len(DurationSegments(r.str)) :
                DigitCount(DurationSegments(r.str)[i]) > 4300
    THEN IntValueError
    ELSE LET parts == DurationParts(r.str)
         IN  IF Len(parts) = 3
             THEN PyInt(parts[1] * 3600 + parts[2] * 60 + parts[3])
             ELSE IF Len(parts) = 2
             THEN PyInt(parts[1] * 60 + parts[2])
             ELSE IF Len(parts) >= 1 THEN PyInt(parts[1]) ELSE NoneValue

DurationToSeconds(r) ==
    IF r = NoneValue \/ r = PyStr(<<>>) THEN NoneValue
    ELSE IF \E i \in 1..Len(DurationSegments(r.str)) :
                DigitCount(DurationSegments(r.str)[i]) > 4300
    THEN IntValueError
    ELSE LET parts == DurationParts(r.str)
         IN  IF Len(parts) = 3
             THEN PyInt(parts[1] * 3600 + parts[2] * 60 + parts[3])
             ELSE IF Len(parts) = 2
             THEN PyInt(parts[1] * 60 + parts[2])
             ELSE IF Len(parts) = 1 THEN PyInt(parts[1]) ELSE NoneValue

Raised(r) == "raised" \in DOMAIN r

----------------------------------------------------------------------------
(* parse_call_html: one row of the table *)

EmptyDict == [k \in {} |-> NoneValue]

Put(d, k, v) == (k :> v) @@ d

XlatGet(label_ru) ==
    IF label_ru \in DOMAIN LABEL_XLAT THEN LABEL_XLAT[label_ru] ELSE label_ru

Date == <<"01.Jan.2024 10:00:00">>

ValueError == [raised |-> "ValueError", message |-> "does not match format"]

Strptime(s) == IF s = Date THEN Datetime(s) ELSE ValueError

FirstText(tds) == Strip(GetText(tds[1], <<SEPARATOR>>))

BranchLabelValueFirst(tds) ==
    IF tds = <<>> THEN "continue"
    ELSE IF Len(tds) = 2 /\ EndsWith(FirstText(tds), COLON) THEN "label"
    ELSE IF StartsWith(FirstText(tds), BannerMarker) THEN "banner"
    ELSE IF /\ Len(tds) >= 3
            /\ \/ StartsWith(FirstText(tds), Sotrudnik)
               \/ StartsWith(FirstText(tds), Klient)
    THEN "dialogue"
    ELSE "skip"

Branch(tds) ==
    IF tds = <<>> THEN "continue"
    ELSE IF StartsWith(FirstText(tds), BannerMarker) THEN "banner"
    ELSE IF Len(tds) = 2 /\ EndsWith(FirstText(tds), COLON) THEN "label"
    ELSE IF /\ Len(tds) >= 3
            /\ \/ StartsWith(FirstText(tds), Sotrudnik)
               \/ StartsWith(FirstText(tds), Klient)
    THEN "dialogue"
    ELSE "skip"

BannerFields(h, text) ==
    LET fields == Split(text, SEPARATOR)
    IN  IF Len(fields) > 1
        THEN Put(Put(h, <<"call_datetime_raw">>, PyStr(fields[2])),
                 <<"call_datetime">>,
                 IF Strptime(fields[2]) = ValueError
                 THEN NoneValue
                 ELSE Strptime(fields[2]))
        ELSE h

LabelValue(h, tds, text) ==
    Put(h, XlatGet(RStripColon(text)), PyStr(Strip(Text(tds[2]))))

TranscriptLineOneBased(lines, tds, text) ==
    DecStr(Len(lines) + 1) \o <<DOT, SP>> \o Strip(Text(tds[2])) \o <<DOT, SP>>
        \o text \o <<COLON, SP>> \o Clean(tds[3])

TranscriptLine(lines, tds, text) ==
    DecStr(Len(lines)) \o <<DOT, SP>> \o Strip(Text(tds[2])) \o <<DOT, SP>>
        \o text \o <<COLON, SP>> \o Clean(tds[3])

RoleEnByPrefix(text) ==
    IF StartsWith(text, Klient) THEN "client" ELSE "employee"

RoleEn(text) == IF text = Klient THEN "client" ELSE "employee"

DialogueEntry(tds, text) ==
    [role_ru |-> text,
     role_en |-> RoleEn(text),
     timestamp_local |-> Strip(Text(tds[2])),
     text |-> Clean(tds[3])]

ProcessRow(st, tds) ==
    LET b == Branch(tds)
    IN  IF b = "banner"
        THEN [st EXCEPT !.header = BannerFields(st.header, FirstText(tds))]
        ELSE IF b = "label"
        THEN [st EXCEPT !.header = LabelValue(st.header, tds, FirstText(tds))]
        ELSE IF b = "dialogue"
        THEN [st EXCEPT
                 !.conversation_lines =
                     Append(st.conversation_lines,
                            TranscriptLine(st.conversation_lines, tds,
                                           FirstText(tds))),
                 !.dialogue = Append(st.dialogue,
                                     DialogueEntry(tds, FirstText(tds)))]
        ELSE st

----------------------------------------------------------------------------
(* parse_call_html: after the loop *)

DurationRaises(st) ==
    /\ <<"duration_raw">> \in DOMAIN st.header
    /\ Raised(DurationToSeconds(st.header[<<"duration_raw">>]))

FinalHeader(st) ==
    LET h == IF <<"duration_raw">> \in DOMAIN st.header
             THEN Put(st.header, <<"duration_seconds">>,
                      DurationToSeconds(st.header[<<"duration_raw">>]))
             ELSE st.header
    IN  Put(h, <<"conversation">>, PyStr(Join(st.conversation_lines, <<NL>>)))

ConversationFrame(d) ==
    [i \in 1..Len(d) |->
        [turn_index |-> i,
         role_ru |-> d[i].role_ru,
         role_en |-> d[i].role_en,
         timestamp_local |-> d[i].timestamp_local,
         text |-> d[i].text]]

KeyError == [raised |-> "KeyError", message |-> "not in index"]

Frames(st) ==
    IF DurationRaises(st)
    THEN DurationToSeconds(st.header[<<"duration_raw">>])
    ELSE IF st.dialogue = <<>>
    THEN KeyError
    ELSE [header_df |-> FinalHeader(st),
          conversation_df |-> ConversationFrame(st.dialogue)]

NotFinished == [pending |-> TRUE]

----------------------------------------------------------------------------
(* The rows the table is made of *)

T == <<"t">>
X == <<"x">>

Rows ==
    { <<>>,
      << <<BannerMarker, Date>> >>,
      << <<BannerMarker, X>> >>,
      << <<BannerMarker \o <<COLON>>>>, <<X>> >>,
      << <<BannerMarker>>, <<T>>, <<X>> >>,
      << <<<<"Dlitelnost", COLON>>>>, <<<<"1", COLON, "0", "5">>>> >>,
      << <<<<"x", COLON>>>>, <<<<SP, "y", SP>>>> >>,
      << <<<<"Dlitelnost", COLON>>>>, <<<<LongDigitRun>>>> >>,
      << <<Klient \o <<COLON>>>>, <<X>> >>,
      << <<Sotrudnik>>, <<T>>, <<X>> >>,
      << <<Klient>>, <<<<SP, "t">>>>, <<<<SP, "x", NL, NL, SP, "y", SP>>>> >>,
      << <<Klient \o X>>, <<T>>, <<X>> >>,
      << <<Klient \o <<NL, "x">>>>, <<T>>, <<X>> >>,
      << <<Sotrudnik>>, <<<<"t", NL, "t">>>>, <<X>>, <<X>> >>,
      << <<Sotrudnik>>, <<T>>, <<>> >>,
      << <<X>>, <<T>> >>,
      << <<Klient>>, <<T>> >>,
      << <<<<"x", COLON>>>>, <<T>>, <<X>> >> }

----------------------------------------------------------------------------
(* parse_call_html as a state machine over the rows of the table *)

LoopState ==
    [header |-> header, dialogue |-> dialogue,
     conversation_lines |-> conversation_lines]

TakeRow(tds) ==
    /\ trs' = Append(trs, tds)
    /\ header' = ProcessRow(LoopState, tds).header
    /\ dialogue' = ProcessRow(LoopState, tds).dialogue
    /\ conversation_lines' = ProcessRow(LoopState, tds).conversation_lines
    /\ UNCHANGED <<pc, result, docVars, durVars, batchVars>>

NoCellsRow ==
    /\ pc = "loop"
    /\ Len(trs) < MaxRows
    /\ \E tds \in Rows : Branch(tds) = "continue" /\ TakeRow(tds)

BannerRow ==
    /\ pc = "loop"
    /\ Len(trs) < MaxRows
    /\ \E tds \in Rows : Branch(tds) = "banner" /\ TakeRow(tds)

LabelValueRow ==
    /\ pc = "loop"
    /\ Len(trs) < MaxRows
    /\ \E tds \in Rows : Branch(tds) = "label" /\ TakeRow(tds)

DialogueRow ==
    /\ pc = "loop"
    /\ Len(trs) < MaxRows
    /\ \E tds \in Rows : Branch(tds) = "dialogue" /\ TakeRow(tds)

IgnoredRow ==
    /\ pc = "loop"
    /\ Len(trs) < MaxRows
    /\ \E tds \in Rows : Branch(tds) = "skip" /\ TakeRow(tds)

Return ==
    /\ pc = "loop"
    /\ ~Raised(Frames(LoopState))
    /\ pc' = "returned"
    /\ result' = Frames(LoopState)
    /\ UNCHANGED <<trs, header, dialogue, conversation_lines,
                   docVars, durVars, batchVars>>

Raise ==
    /\ pc = "loop"
    /\ Raised(Frames(LoopState))
    /\ pc' = "raised"
    /\ result' = Frames(LoopState)
    /\ UNCHANGED <<trs, header, dialogue, conversation_lines,
                   docVars, durVars, batchVars>>

Idle == [unused |-> TRUE]

InitParse ==
    /\ pc = Idle /\ trs = Idle /\ header = Idle /\ dialogue = Idle
    /\ conversation_lines = Idle /\ result = Idle

InitDur == raw = Idle /\ seconds = Idle

InitBatch ==
    /\ driver = Idle /\ files = Idle /\ idx = Idle /\ final_rows = Idle
    /\ errors = Idle /\ processed_count = Idle /\ error_count = Idle
    /\ outcome = Idle

Init ==
    /\ pc = "loop"
    /\ trs = <<>>
    /\ header = EmptyDict
    /\ dialogue = <<>>
    /\ conversation_lines = <<>>
    /\ result = NotFinished
    /\ html = Idle /\ parsed = Idle
    /\ InitDur /\ InitBatch

Next ==
    \/ NoCellsRow
    \/ BannerRow
    \/ LabelValueRow
    \/ DialogueRow
    \/ IgnoredRow
    \/ Return
    \/ Raise

Spec == Init /\ [][Next]_vars

----------------------------------------------------------------------------
(* The row shapes of the specification, in its priority order *)

IsBannerShape(tds) ==
    Len(tds) >= 1 /\ StartsWith(FirstText(tds), BannerMarker)

IsLabelValueShape(tds) == Len(tds) = 2 /\ EndsWith(FirstText(tds), COLON)

IsRoleShape(tds) ==
    /\ Len(tds) >= 3
    /\ \/ StartsWith(FirstText(tds), Sotrudnik)
       \/ StartsWith(FirstText(tds), Klient)

IsDialogueRow(tds) ==
    IsRoleShape(tds) /\ ~IsBannerShape(tds) /\ ~IsLabelValueShape(tds)

DialogueRowsOf(rows) == SelectSeq(rows, IsDialogueRow)

Finished == pc # "loop"

----------------------------------------------------------------------------
(* parse_call_html on a whole document *)

NoTableFound ==
    [raised |-> "ValueError", message |-> "No table found in the HTML"]

FindLast(doc) ==
    IF doc = <<>> THEN NoneValue ELSE [table |-> doc[Len(doc)]]

Find(doc) == IF doc = <<>> THEN NoneValue ELSE [table |-> doc[1]]

EmptyState ==
    [header |-> EmptyDict, dialogue |-> <<>>, conversation_lines |-> <<>>]

RECURSIVE ParseRows(_, _)
ParseRows(st, rows) ==
    IF rows = <<>> THEN st
    ELSE ParseRows(ProcessRow(st, Head(rows)), Tail(rows))

FindAll(table) == IF table = NoneValue THEN <<>> ELSE table.table

ParseCallHtml(doc) ==
    IF Find(doc) = NoneValue
    THEN NoTableFound
    ELSE Frames(ParseRows(EmptyState, FindAll(Find(doc))))

Returned(r) == "header_df" \in DOMAIN r

DocTables ==
    { <<>>,
      << << <<X>>, <<T>> >> >>,
      << << <<Sotrudnik>>, <<T>>, <<X>> >> >>,
      << << <<<<"Dlitelnost", COLON>>>>, <<<<"1", COLON, "0", "5">>>> >>,
         << <<Klient>>, <<T>>, <<X>> >> >>,
      << << <<<<"Dlitelnost", COLON>>>>, <<<<LongDigitRun>>>> >>,
         << <<Sotrudnik>>, <<T>>, <<X>> >> >>,
      << << <<BannerMarker, Date>> >>,
         << <<Klient>>, <<T>>, <<X>> >>,
         << <<Sotrudnik>>, <<T>>, <<X>> >> >> }

Docs == UNION {[1..n -> DocTables] : n \in 0..MaxTables}

InitDoc ==
    /\ html \in Docs
    /\ parsed = NotFinished
    /\ InitParse /\ InitDur /\ InitBatch

ParseNoTable ==
    /\ parsed = NotFinished
    /\ Find(html) = NoneValue
    /\ parsed' = [read |-> FindAll(Find(html)), outcome |-> ParseCallHtml(html)]
    /\ UNCHANGED <<html, parseVars, durVars, batchVars>>

ParseTable ==
    /\ parsed = NotFinished
    /\ Find(html) # NoneValue
    /\ parsed' = [read |-> FindAll(Find(html)), outcome |-> ParseCallHtml(html)]
    /\ UNCHANGED <<html, parseVars, durVars, batchVars>>

NextDoc == ParseNoTable \/ ParseTable

SpecDoc == InitDoc /\ [][NextDoc]_vars

\* C3: a document with no table fails with the no-table-found error before
\* any row is processed and returns neither a header nor turns; a document
\* with at least one table never raises that error, and only its first table
\* is read.
C3_NoTableFoundOnlyWithoutTable ==
    parsed # NotFinished =>
        /\ html = <<>> =>
              /\ parsed.outcome = NoTableFound
              /\ parsed.read = <<>>
              /\ ~Returned(parsed.outcome)
        /\ html # <<>> =>
              /\ parsed.outcome # NoTableFound
              /\ parsed.read = html[1]
              /\ Returned(parsed.outcome) =>
                    Len(parsed.outcome.conversation_df)
                        = Len(DialogueRowsOf(html[1]))

C3_Witness ==
    /\ parsed # NotFinished
    /\ Len(html) = 3
    /\ Len(DialogueRowsOf(html[1])) = 1
    /\ Len(DialogueRowsOf(html[2])) = 2
    /\ html[3] = <<>>
    /\ Returned(parsed.outcome)
    /\ Len(parsed.outcome.conversation_df) = 1

----------------------------------------------------------------------------
(* _duration_to_seconds on its own *)

DurationChars == {"0", "2", COLON, "x"}

DurationExamples ==
    { <<"0", "1", COLON, "0", "2", COLON, "0", "3">>,
      <<"1", "2", COLON, "0", "5">>,
      <<"4", "5">>,
      <<"a", "b", "c">>,
      <<"1", "2", SP, "m", COLON, SP, "0", "5", SP, "s">>,
      <<LongDigitRun>>,
      <<"0", COLON, LongDigitRun, COLON, "0", COLON, "0">> }

DurationInputs ==
    {NoneValue}
    \cup {PyStr(t) : t \in DurationExamples}
    \cup {PyStr(t) : t \in UNION {[1..n -> DurationChars] : n \in 0..MaxDurationLen}}

InitDuration ==
    /\ raw \in DurationInputs
    /\ seconds = NotFinished
    /\ html = Idle /\ parsed = Idle
    /\ InitParse /\ InitBatch

ReturnNone ==
    /\ seconds = NotFinished
    /\ DurationToSeconds(raw) = NoneValue
    /\ seconds' = DurationToSeconds(raw)
    /\ UNCHANGED <<raw, parseVars, docVars, batchVars>>

ReturnSeconds ==
    /\ seconds = NotFinished
    /\ DurationToSeconds(raw) # NoneValue
    /\ ~Raised(DurationToSeconds(raw))
    /\ seconds' = DurationToSeconds(raw)
    /\ UNCHANGED <<raw, parseVars, docVars, batchVars>>

RaiseFromInt ==
    /\ seconds = NotFinished
    /\ Raised(DurationToSeconds(raw))
    /\ seconds' = DurationToSeconds(raw)
    /\ UNCHANGED <<raw, parseVars, docVars, batchVars>>

NextDur == ReturnNone \/ ReturnSeconds \/ RaiseFromInt

SpecDur == InitDuration /\ [][NextDur]_vars

(* The segments of a duration text, read off in one left-to-right scan: a    *)
(* digit extends the open segment, a colon closes it, and any other          *)
(* character is passed over.  A segment is the text of its digits.           *)
RECURSIVE ScanSegments(_, _, _)
ScanSegments(t, open, done) ==
    IF t = <<>> THEN IF open = <<>> THEN done ELSE Append(done, open)
    ELSE IF Head(t) = ":"
    THEN ScanSegments(Tail(t), <<>>,
                      IF open = <<>> THEN done ELSE Append(done, open))
    ELSE IF Head(t) \in {"0", "1", "2", "3", "4", "5", "6", "7", "8", "9",
                         LongDigitRun}
    THEN ScanSegments(Tail(t), Append(open, Head(t)), done)
    ELSE ScanSegments(Tail(t), open, done)

SegmentsOf(r) == IF r = NoneValue THEN <<>> ELSE ScanSegments(r.str, <<>>, <<>>)

RECURSIVE ValueOf(_)
ValueOf(digits) ==
    IF digits = <<>> THEN 0
    ELSE LET d == digits[Len(digits)]
         IN  ValueOf(SubSeq(digits, 1, Len(digits) - 1)) * 10
                 + (CASE d = "0" -> 0 [] d = "1" -> 1 [] d = "2" -> 2
                      [] d = "3" -> 3 [] d = "4" -> 4 [] d = "5" -> 5
                      [] d = "6" -> 6 [] d = "7" -> 7 [] d = "8" -> 8
                      [] d = "9" -> 9)

SegmentCountRule ==
    LET g == SegmentsOf(raw)
    IN  /\ Len(g) = 3 => seconds = PyInt(ValueOf(g[1]) * 3600
                                            + ValueOf(g[2]) * 60 + ValueOf(g[3]))
        /\ Len(g) = 2 => seconds = PyInt(ValueOf(g[1]) * 60 + ValueOf(g[2]))
        /\ Len(g) = 1 => seconds = PyInt(ValueOf(g[1]))
        /\ Len(g) \notin {1, 2, 3} => seconds = NoneValue
        /\ raw = PyStr(<<"0", "1", ":", "0", "2", ":", "0", "3">>)
              => seconds = PyInt(3723)
        /\ raw = PyStr(<<"1", "2", ":", "0", "5">>) => seconds = PyInt(725)
        /\ raw = PyStr(<<"4", "5">>) => seconds = PyInt(45)
        /\ raw = PyStr(<<>>) => seconds = NoneValue
        /\ raw = PyStr(<<"a", "b", "c">>) => seconds = NoneValue
        /\ raw = NoneValue => seconds = NoneValue

\* C6: _duration_to_seconds is total and never raises; with the characters
\* that are no digit and no colon removed and the text split on colons, empty
\* segments dropped, 3 segments h,m,s give h*3600+m*60+s, 2 segments m,s give
\* m*60+s, 1 segment gives its value and anything else gives None;
\* "01:02:03" -> 3723, "12:05" -> 725, "45" -> 45, "" -> None, "abc" -> None.
C6_DurationNeverRaises ==
    seconds # NotFinished => (~Raised(seconds) /\ SegmentCountRule)

(* What does hold of _duration_to_seconds: the rule of C6 for every input     *)
(* none of whose segments is longer than int() converts, and ValueError for   *)
(* the others.                                                                *)
DurationRuleWithinIntLimit ==
    seconds # NotFinished =>
        IF \E i \in 1..Len(SegmentsOf(raw)) : LongDigitRun \in
               {SegmentsOf(raw)[i][j] : j \in 1..Len(SegmentsOf(raw)[i])}
        THEN seconds = IntValueError
        ELSE ~Raised(seconds) /\ SegmentCountRule

----------------------------------------------------------------------------
(* The batch drivers: upload (mango_service.py) and convert_directory *)

GoodDoc ==
    << << << <<BannerMarker, Date>> >>,
          << <<<<"Nomer linii ATS", COLON>>>>, <<<<"1">>>> >>,
          << <<<<"Kto zvonil", COLON>>>>, <<<<"2">>>> >>,
          << <<<<"S kem govoril", COLON>>>>, <<<<"5">>>> >>,
          << <<<<"Dlitelnost", COLON>>>>, <<<<"1", COLON, "0", "5">>>> >>,
          << <<Klient>>, <<T>>, <<X>> >> >> >>

NoTableDoc == <<>>

NoDialogueDoc ==
    << << << <<<<"Dlitelnost", COLON>>>>, <<<<"1", COLON, "0", "5">>>> >> >> >>

BareDoc == << << << <<Sotrudnik>>, <<T>>, <<X>> >> >> >>

InvalidUtf8 == [bytes |-> "invalid utf-8"]

UnicodeDecodeError == [raised |-> "UnicodeDecodeError", message |-> "invalid"]

Uploads ==
    { [filename |-> "a.html", suffix |-> ".html", content |-> [html |-> GoodDoc]],
      [filename |-> "b.html", suffix |-> ".html", content |-> [html |-> NoTableDoc]],
      [filename |-> "c.html", suffix |-> ".html",
       content |-> [html |-> NoDialogueDoc]],
      [filename |-> "d.html", suffix |-> ".html", content |-> [html |-> BareDoc]],
      [filename |-> "e.html", suffix |-> ".html", content |-> InvalidUtf8],
      [filename |-> "", suffix |-> "", content |-> [html |-> GoodDoc]] }

DirEntries ==
    { [filename |-> "a.html", suffix |-> ".html", content |-> [html |-> GoodDoc]],
      [filename |-> "b.html", suffix |-> ".html", content |-> [html |-> NoTableDoc]],
      [filename |-> "c.html", suffix |-> ".html",
       content |-> [html |-> NoDialogueDoc]],
      [filename |-> "d.html", suffix |-> ".html", content |-> [html |-> BareDoc]],
      [filename |-> "e.html", suffix |-> ".html", content |-> InvalidUtf8],
      [filename |-> "F.HTML", suffix |-> ".HTML", content |-> [html |-> GoodDoc]],
      [filename |-> "index.html", suffix |-> ".html",
       content |-> [html |-> GoodDoc]],
      [filename |-> "notes.txt", suffix |-> ".txt",
       content |-> [html |-> GoodDoc]] }

Lower(suffix) == IF suffix = ".HTML" THEN ".html" ELSE suffix

Decode(content) ==
    IF "bytes" \in DOMAIN content THEN UnicodeDecodeError ELSE content

Parse(content) ==
    IF Raised(Decode(content)) THEN Decode(content)
    ELSE ParseCallHtml(Decode(content).html)

HeaderCols ==
    { <<"call_datetime_raw">>, <<"call_datetime">>, <<"line_number">>,
      <<"caller">>, <<"callee">>, <<"duration_raw">>, <<"duration_seconds">> }

TurnColumns(turn) ==
    (<<"turn_index">> :> PyInt(turn.turn_index))
    @@ (<<"role_ru">> :> PyStr(turn.role_ru))
    @@ (<<"role_en">> :> PyStr(<<turn.role_en>>))
    @@ (<<"timestamp_local">> :> PyStr(turn.timestamp_local))
    @@ (<<"text">> :> PyStr(turn.text))

Merged(frames) ==
    [i \in 1..Len(frames.conversation_df) |->
        frames.header_df @@ TurnColumns(frames.conversation_df[i])]

MergeRaises(frames) ==
    \E c \in HeaderCols : c \notin DOMAIN Merged(frames)[1]

RECURSIVE Concat(_)
Concat(dfs) == IF dfs = <<>> THEN <<>> ELSE Head(dfs) \o Concat(Tail(dfs))

InitUpload ==
    /\ driver = "upload"
    /\ files \in UNION {[1..n -> Uploads] : n \in 0..MaxFiles}
    /\ idx = 0
    /\ final_rows = <<>>
    /\ errors = <<>>
    /\ processed_count = 0
    /\ error_count = 0
    /\ outcome = NotFinished

InitConvertDirectory ==
    /\ driver = "convert_directory"
    /\ files \in UNION {[1..n -> DirEntries] : n \in 0..MaxFiles}
    /\ idx = 0
    /\ final_rows = <<>>
    /\ errors = Idle
    /\ processed_count = Idle
    /\ error_count = Idle
    /\ outcome = NotFinished

InitBatchDrivers ==
    /\ InitUpload \/ InitConvertDirectory
    /\ html = Idle /\ parsed = Idle
    /\ InitParse /\ InitDur

InLoop(d) == driver = d /\ outcome = NotFinished /\ idx < Len(files)

AfterLoop(d) == driver = d /\ outcome = NotFinished /\ idx = Len(files)

UploadNoFiles ==
    /\ AfterLoop("upload")
    /\ files = <<>>
    /\ outcome' = [status |-> 400, body |-> "No files uploaded"]
    /\ UNCHANGED <<driver, files, idx, final_rows, errors, processed_count,
                   error_count, parseVars, docVars, durVars>>

UploadSkipEmpty ==
    /\ InLoop("upload")
    /\ files[idx + 1].filename = ""
    /\ idx' = idx + 1
    /\ UNCHANGED <<driver, files, final_rows, errors, processed_count,
                   error_count, outcome, parseVars, docVars, durVars>>

UploadReadError ==
    /\ InLoop("upload")
    /\ files[idx + 1].filename # ""
    /\ Raised(Decode(files[idx + 1].content))
    /\ error_count' = error_count + 1
    /\ errors' = Append(errors, [filename |-> files[idx + 1].filename,
                                 message |-> "Failed to read"])
    /\ idx' = idx + 1
    /\ UNCHANGED <<driver, files, final_rows, processed_count, outcome,
                   parseVars, docVars, durVars>>

UploadParseError ==
    /\ InLoop("upload")
    /\ files[idx + 1].filename # ""
    /\ ~Raised(Decode(files[idx + 1].content))
    /\ Raised(Parse(files[idx + 1].content))
    /\ error_count' = error_count + 1
    /\ errors' = Append(errors, [filename |-> files[idx + 1].filename,
                                 message |-> "Failed to parse HTML"])
    /\ idx' = idx + 1
    /\ UNCHANGED <<driver, files, final_rows, processed_count, outcome,
                   parseVars, docVars, durVars>>

UploadAppend ==
    /\ InLoop("upload")
    /\ files[idx + 1].filename # ""
    /\ ~Raised(Parse(files[idx + 1].content))
    /\ final_rows' = Append(final_rows, Parse(files[idx + 1].content).header_df)
    /\ processed_count' = processed_count + 1
    /\ idx' = idx + 1
    /\ UNCHANGED <<driver, files, errors, error_count, outcome,
                   parseVars, docVars, durVars>>

UploadAllFailed ==
    /\ AfterLoop("upload")
    /\ files # <<>>
    /\ final_rows = <<>>
    /\ outcome' = [status |-> 200, processed_count |-> 0,
                   error_count |-> error_count, errors |-> errors,
                   csv |-> NoneValue]
    /\ UNCHANGED <<driver, files, idx, final_rows, errors, processed_count,
                   error_count, parseVars, docVars, durVars>>

UploadCsv ==
    /\ AfterLoop("upload")
    /\ final_rows # <<>>
    /\ outcome' = [status |-> 200, processed_count |-> processed_count,
                   error_count |-> error_count, errors |-> errors,
                   csv |-> [rows |-> final_rows]]
    /\ UNCHANGED <<driver, files, idx, final_rows, errors, processed_count,
                   error_count, parseVars, docVars, durVars>>

Skipped(f) == f.filename = "index.html" \/ Lower(f.suffix) # ".html"

ConvertSkip ==
    /\ InLoop("convert_directory")
    /\ Skipped(files[idx + 1])
    /\ idx' = idx + 1
    /\ UNCHANGED <<driver, files, final_rows, errors, processed_count,
                   error_count, outcome, parseVars, docVars, durVars>>

ConvertReadRaises ==
    /\ InLoop("convert_directory")
    /\ ~Skipped(files[idx + 1])
    /\ Raised(Decode(files[idx + 1].content))
    /\ outcome' = Decode(files[idx + 1].content)
    /\ UNCHANGED <<driver, files, idx, final_rows, errors, processed_count,
                   error_count, parseVars, docVars, durVars>>

ConvertParseRaises ==
    /\ InLoop("convert_directory")
    /\ ~Skipped(files[idx + 1])
    /\ ~Raised(Decode(files[idx + 1].content))
    /\ Raised(Parse(files[idx + 1].content))
    /\ outcome' = Parse(files[idx + 1].content)
    /\ UNCHANGED <<driver, files, idx, final_rows, errors, processed_count,
                   error_count, parseVars, docVars, durVars>>

ConvertMergeRaises ==
    /\ InLoop("convert_directory")
    /\ ~Skipped(files[idx + 1])
    /\ ~Raised(Parse(files[idx + 1].content))
    /\ MergeRaises(Parse(files[idx + 1].content))
    /\ outcome' = KeyError
    /\ UNCHANGED <<driver, files, idx, final_rows, errors, processed_count,
                   error_count, parseVars, docVars, durVars>>

ConvertAppend ==
    /\ InLoop("convert_directory")
    /\ ~Skipped(files[idx + 1])
    /\ ~Raised(Parse(files[idx + 1].content))
    /\ ~MergeRaises(Parse(files[idx + 1].content))
    /\ final_rows' = Append(final_rows, Merged(Parse(files[idx + 1].content)))
    /\ idx' = idx + 1
    /\ UNCHANGED <<driver, files, errors, processed_count, error_count,
                   outcome, parseVars, docVars, durVars>>

ConvertWriteCsv ==
    /\ AfterLoop("convert_directory")
    /\ final_rows # <<>>
    /\ outcome' = [csv |-> [rows |-> Concat(final_rows)]]
    /\ UNCHANGED <<driver, files, idx, final_rows, errors, processed_count,
                   error_count, parseVars, docVars, durVars>>

ConvertNoCsv ==
    /\ AfterLoop("convert_directory")
    /\ final_rows = <<>>
    /\ outcome' = [csv |-> NoneValue]
    /\ UNCHANGED <<driver, files, idx, final_rows, errors, processed_count,
                   error_count, parseVars, docVars, durVars>>

NextBatch ==
    \/ UploadNoFiles
    \/ UploadSkipEmpty
    \/ UploadReadError
    \/ UploadParseError
    \/ UploadAppend
    \/ UploadAllFailed
    \/ UploadCsv
    \/ ConvertSkip
    \/ ConvertReadRaises
    \/ ConvertParseRaises
    \/ ConvertMergeRaises
    \/ ConvertAppend
    \/ ConvertWriteCsv
    \/ ConvertNoCsv

SpecBatch == InitBatchDrivers /\ [][NextBatch]_vars

(* The documents of the batch that the driver hands to parse_call_html, and  *)
(* what a document that parses contributes to the driver's output.           *)
Taken(f) ==
    IF driver = "upload" THEN f.filename # "" ELSE ~Skipped(f)

ParseSucceeds(f) ==
    /\ "html" \in DOMAIN f.content
    /\ Returned(ParseCallHtml(f.content.html))

Contribution(f) ==
    IF driver = "upload"
    THEN <<ParseCallHtml(f.content.html).header_df>>
    ELSE [i \in 1..Len(ParseCallHtml(f.content.html).conversation_df) |->
             ParseCallHtml(f.content.html).header_df
                 @@ TurnColumns(ParseCallHtml(f.content.html).conversation_df[i])]

InOutput(rows) ==
    /\ "csv" \in DOMAIN outcome
    /\ outcome.csv # NoneValue
    /\ \A i \in 1..Len(rows) :
          \E k \in 1..Len(outcome.csv.rows) : outcome.csv.rows[k] = rows[i]

FailuresRecordedPerDocument ==
    driver = "upload" =>
        /\ "errors" \in DOMAIN outcome
        /\ Len(outcome.errors)
              = Cardinality({i \in 1..Len(files) :
                                Taken(files[i]) /\ ~ParseSucceeds(files[i])})
        /\ \A i \in 1..Len(files) :
              (Taken(files[i]) /\ ~ParseSucceeds(files[i])) =>
                  \E k \in 1..Len(outcome.errors) :
                      outcome.errors[k].filename = files[i].filename
        /\ \A k \in 1..Len(outcome.errors) :
              \E i \in 1..Len(files) :
                  /\ Taken(files[i]) /\ ~ParseSucceeds(files[i])
                  /\ outcome.errors[k].filename = files[i].filename

BatchIsolation ==
    /\ ~Raised(outcome)
    /\ \A i \in 1..Len(files) :
          (Taken(files[i]) /\ ParseSucceeds(files[i])) =>
              InOutput(Contribution(files[i]))
    /\ FailuresRecordedPerDocument

\* C7: in both batch drivers, upload and convert_directory, every document
\* whose parse succeeds contributes its result to the batch output whichever
\* other documents fail to parse, each failure is recorded for its document
\* alone, and a failing document never aborts the batch.
C7_FailedParseDoesNotAbortBatch ==
    (outcome # NotFinished /\ outcome # Idle /\ files # <<>>) => BatchIsolation

(* What does hold: the upload handler keeps the claim of C7.                 *)
UploadIsolatesFailures ==
    (driver = "upload" /\ outcome # NotFinished /\ files # <<>>)
        => BatchIsolation

----------------------------------------------------------------------------
(* Claims about parse_call_html, under Spec *)

\* C1: for every document with a table, parse_call_html returns exactly N
\* turns, N the number of dialogue rows, with turn_index 1, 2, ..., N in
\* row-encounter order whatever rows are interspersed.
C1_TurnIndexRunsOneToN ==
    Finished =>
        /\ pc = "returned"
        /\ Len(result.conversation_df) = Len(DialogueRowsOf(trs))
        /\ \A i \in 1..Len(result.conversation_df) :
              result.conversation_df[i].turn_index = i

\* C2: a document with a table and no dialogue row makes parse_call_html
\* return normally, with an empty turn sequence and a header whose
\* conversation is the empty string.
C2_NoDialogueRowsReturnsEmpty ==
    (Finished /\ DialogueRowsOf(trs) = <<>>) =>
        /\ pc = "returned"
        /\ result.conversation_df = <<>>
        /\ result.header_df[<<"conversation">>] = PyStr(<<>>)

\* C4: for every successfully parsed document, conversation split on the
\* newline has exactly as many lines as there are turns, whatever the cells
\* contain.
C4_ConversationLinesMatchTurns ==
    pc = "returned" =>
        Len(Split(result.header_df[<<"conversation">>].str, NL))
            = Len(result.conversation_df)

\* C5: for every dialogue row the turn has role_en = "client" if and only if
\* its role_ru is exactly the client marker, and "employee" in every other
\* case, a first cell that only starts with the client marker included.
C5_RoleEnClientIffEqual ==
    /\ Len(dialogue) = Len(DialogueRowsOf(trs))
    /\ \A i \in 1..Len(dialogue) :
          /\ dialogue[i].role_ru = FirstText(DialogueRowsOf(trs)[i])
          /\ dialogue[i].role_en \in {"client", "employee"}
          /\ dialogue[i].role_en = "client" <=> dialogue[i].role_ru = Klient
    /\ pc = "returned" =>
          \A i \in 1..Len(result.conversation_df) :
              /\ result.conversation_df[i].role_ru = dialogue[i].role_ru
              /\ result.conversation_df[i].role_en \in {"client", "employee"}
              /\ result.conversation_df[i].role_en = "client"
                    <=> result.conversation_df[i].role_ru = Klient

C5_Witness ==
    /\ pc = "returned"
    /\ \E i, j \in 1..Len(result.conversation_df) :
          /\ StartsWith(result.conversation_df[i].role_ru, Klient)
          /\ result.conversation_df[i].role_ru # Klient
          /\ result.conversation_df[i].role_en = "employee"
          /\ result.conversation_df[j].role_ru = Klient
          /\ result.conversation_df[j].role_en = "client"

\* C8: the role_ru of every turn is exactly one of the two role markers; a
\* first cell that only starts with a marker gives no turn with another
\* role_ru.
C8_RoleRuIsAMarker ==
    /\ \A i \in 1..Len(dialogue) : dialogue[i].role_ru \in {Sotrudnik, Klient}
    /\ pc = "returned" =>
          \A i \in 1..Len(result.conversation_df) :
              result.conversation_df[i].role_ru \in {Sotrudnik, Klient}

\* C9: each row is handled by the one handler of its first matching shape,
\* Banner > LabelValue > Dialogue > Ignored: a banner-marked row adds no
\* label/value field and no turn, a label/value row sets its one field, a
\* dialogue row adds one turn and one transcript line, and an ignored row or
\* a row with no cells changes nothing and raises no error.
C9_OneHandlerByPriority ==
    [][trs' # trs =>
        LET tds == trs'[Len(trs')]
            datetimeKeys == {<<"call_datetime_raw">>, <<"call_datetime">>}
        IN  /\ pc' = "loop"
            /\ IF tds # <<>> /\ IsBannerShape(tds)
               THEN /\ dialogue' = dialogue
                    /\ conversation_lines' = conversation_lines
                    /\ DOMAIN header' \subseteq DOMAIN header \cup datetimeKeys
                    /\ \A k \in DOMAIN header \ datetimeKeys :
                          k \in DOMAIN header' /\ header'[k] = header[k]
               ELSE IF tds # <<>> /\ IsLabelValueShape(tds)
               THEN /\ dialogue' = dialogue
                    /\ conversation_lines' = conversation_lines
                    /\ \E k \in DOMAIN header' :
                          /\ DOMAIN header' = DOMAIN header \cup {k}
                          /\ header'[k] = PyStr(Strip(Text(tds[2])))
                          /\ \A j \in DOMAIN header \ {k} :
                                header'[j] = header[j]
               ELSE IF tds # <<>> /\ IsRoleShape(tds)
               THEN /\ header' = header
                    /\ Len(dialogue') = Len(dialogue) + 1
                    /\ SubSeq(dialogue', 1, Len(dialogue)) = dialogue
                    /\ Len(conversation_lines') = Len(conversation_lines) + 1
                    /\ SubSeq(conversation_lines', 1, Len(conversation_lines))
                          = conversation_lines
               ELSE /\ header' = header
                    /\ dialogue' = dialogue
                    /\ conversation_lines' = conversation_lines]_vars

C9_Witness ==
    /\ Len(trs) = 3
    /\ \E i \in 1..3 : Len(trs[i]) = 2 /\ IsBannerShape(trs[i])
                         /\ IsLabelValueShape(trs[i])
    /\ \E i \in 1..3 : Len(trs[i]) >= 3 /\ IsBannerShape(trs[i])
    /\ \E i \in 1..3 : trs[i] # <<>> /\ ~IsBannerShape(trs[i])
                         /\ ~IsLabelValueShape(trs[i]) /\ ~IsRoleShape(trs[i])
    /\ header = EmptyDict
    /\ dialogue = <<>>
    /\ conversation_lines = <<>>
    /\ pc = "loop"

\* C10: the transcript buffer and the turn list stay in lock-step: same
\* length, and the k-th line is "{k-1}. {timestamp_local}. {role_ru}: {text}"
\* of the turn whose turn_index is k.
C10_TranscriptInLockStep ==
    /\ Len(conversation_lines) = Len(dialogue)
    /\ \A k \in 1..Len(dialogue) :
          conversation_lines[k] =
              DecStr(k - 1) \o <<".", " ">> \o dialogue[k].timestamp_local
                  \o <<".", " ">> \o dialogue[k].role_ru
                  \o <<":", " ">> \o dialogue[k].text
    /\ pc = "returned" =>
          /\ Len(result.conversation_df) = Len(conversation_lines)
          /\ \A k \in 1..Len(result.conversation_df) :
                LET turn == result.conversation_df[k]
                IN  conversation_lines[turn.turn_index] =
                        DecStr(turn.turn_index - 1) \o <<".", " ">>
                            \o turn.timestamp_local \o <<".", " ">>
                            \o turn.role_ru \o <<":", " ">> \o turn.text
          /\ result.header_df[<<"conversation">>]
                = PyStr(Join(conversation_lines, <<"\n">>))

C10_Witness ==
    /\ pc = "returned"
    /\ Len(trs) = 3
    /\ IsDialogueRow(trs[1]) /\ ~IsDialogueRow(trs[2]) /\ IsDialogueRow(trs[3])
    /\ Len(result.conversation_df) = 2
    /\ result.conversation_df[2].turn_index = 2
    /\ conversation_lines[2][1] = "1"

====
